---- MODULE Spec2Model ----
(***************************************************************************)
(* Model of the recurrent scheduler (src/scheduler.go).                    *)
(*                                                                         *)
(* Goroutines of a started scheduler:                                      *)
(*   loop     - the goroutine of Start(): select on t / clock.After / quit *)
(*   ready    - hammer (default withChan) or convert (WithThrottle)        *)
(*   throttle - for range ch1 { ch3 <- <-ch2 }                             *)
(* Channels: s.signal (buffered, capacity 1), s.quit, the ready channel c  *)
(* (unbuffered), t = ch3 (unbuffered).  An unbuffered send is a rendezvous *)
(* and is modelled as one step of sender and receiver together.            *)
(* The environment (the caller's goroutines, the clock and the ticker) is  *)
(* either free or one of the drivers of src/scheduler_test.go.             *)
(***************************************************************************)
EXTENDS Integers, Sequences, FiniteSets, TLC

\* Bounds of the free environment.
MaxSignals == 3
MaxTicks == 3
MaxElapsed == 2
\* Bounds of the test drivers: rounds, and Signal() calls per round (the
\* rounds of TestThrottledExplicitFire have up to four).
MaxRounds == 4
MaxBurst == 4
\* Time is counted in units: the interval of the scheduler and the window of
\* the throttle, in units.
Interval == 2
MinInterval == 1

\* make(chan struct{}, 1)
SignalCap == 1

VARIABLES
    throttled,     \* WithThrottle was applied (s.withChan is the ticker variant)
    driver,        \* which environment drives the scheduler
    started,       \* Start() was called (its goroutine may not have run yet)
    quit,          \* s.quit: "open" or "closed"
    signal,        \* s.signal: the buffered values, oldest first
    signalClosed,  \* close(s.signal) has run
    fatal,         \* the run-time panic that ended the process, or "none"
    loopPc,        \* position of the loop goroutine
    readyPc,       \* position of hammer / convert
    released,      \* withChan's deferred call ran: close(quit) / ticker.Stop()
    cClosed,       \* the ready channel c was closed (hammer's defer close(ch))
    throttlePc,    \* position of the throttle goroutine
    held,          \* the value throttle received from ch2 and has not sent yet
    tClosed,       \* ch3 was closed (throttle's defer close(ch3))
    begun,         \* number of s.target() calls begun
    returned,      \* number of s.target() calls returned
    sigCalls,      \* number of Signal() calls made by the caller
    accepted,      \* number of sends into s.signal that succeeded
    ticks,         \* number of ticks the ticker delivered on ticker.Chan()
    elapsed,       \* number of clock.After events the loop received
    sinceTick,     \* number of target calls begun since the last tick
    invFrom,       \* per tick count e: target calls begun for a Signal() made at tick count e
    burst,         \* Signal() calls since the last tick (throttled test driver)
    stopCalls,     \* number of Stop() calls made by the caller
    emptyTicks,    \* the ticks (by number) delivered while no trigger was pending
    tickerArgs,    \* the durations passed to clock.NewTicker, in order
    tickerStops,   \* number of ticker.Stop() calls
    afterArgs,     \* the durations passed to clock.After, in order
    armed,         \* time units since the latest clock.After call (up to Interval)
    waited         \* time units since the loop last entered its select (up to Interval)

vars == <<throttled, driver, started, quit, signal, signalClosed, fatal, loopPc,
          readyPc, released, cClosed, throttlePc, held, tClosed, begun, returned,
          sigCalls, accepted, ticks, elapsed, sinceTick, invFrom, burst,
          stopCalls, emptyTicks, tickerArgs, tickerStops, afterArgs, armed, waited>>

conf == <<throttled, driver>>
ghost == <<sinceTick, invFrom>>
tickerLog == <<tickerArgs, tickerStops>>
timer == <<afterArgs, armed, waited>>

\* "free": any caller, mock clock and ticker firing at any time.
\* "automatic", "explicit", "throttledExplicit", "throttledAutomatic": the
\* drivers of the four tests.  "timed": any caller, with a clock whose After
\* channel fires once the duration has passed.
Drivers == {"free", "automatic", "explicit", "throttledExplicit", "throttledAutomatic", "timed"}

\* Values travelling through s.signal; struct{}{} carries nothing, the origin
\* and the tick count at the time of the send are kept for the record.
None == [src |-> "none", epoch |-> 0]
Zero == [src |-> "closed", epoch |-> 0]
FromSignal == [src |-> "Signal", epoch |-> ticks]
FromAfter == [src |-> "After", epoch |-> ticks]

Init ==
    /\ driver \in Drivers
    /\ throttled \in BOOLEAN
    /\ driver \in {"automatic", "explicit", "timed"} => ~throttled
    /\ driver \in {"throttledExplicit", "throttledAutomatic"} => throttled
    /\ started = FALSE
    /\ quit = "open"
    /\ signal = <<>>
    /\ signalClosed = FALSE
    /\ fatal = "none"
    /\ loopPc = "idle"
    /\ readyPc = "idle"
    /\ released = FALSE
    /\ cClosed = FALSE
    /\ throttlePc = "idle"
    /\ held = None
    /\ tClosed = FALSE
    /\ begun = 0
    /\ returned = 0
    /\ sigCalls = 0
    /\ accepted = 0
    /\ ticks = 0
    /\ elapsed = 0
    /\ sinceTick = 0
    /\ invFrom = [e \in 0..MaxTicks |-> 0]
    /\ burst = 0
    /\ stopCalls = 0
    /\ emptyTicks = {}
    /\ tickerArgs = <<>>
    /\ tickerStops = 0
    /\ afterArgs = <<>>
    /\ armed = 0
    /\ waited = 0

(***************************************************************************)
(* scheduler.Signal: select { case s.signal <- struct{}{}: default: }      *)
(* A send on a closed channel panics, also inside a select.                *)
(***************************************************************************)
SignalNoFail(v) ==
    /\ fatal' = fatal
    /\ signal' = IF ~signalClosed /\ Len(signal) < SignalCap THEN Append(signal, v) ELSE signal
    /\ accepted' = IF ~signalClosed /\ Len(signal) < SignalCap THEN accepted + 1 ELSE accepted

SignalBlocking(v) ==
    /\ ~signalClosed
    /\ Len(signal) < SignalCap
    /\ fatal' = fatal
    /\ signal' = Append(signal, v)
    /\ accepted' = accepted + 1

SignalUnbuffered(v) ==
    /\ fatal' = IF signalClosed THEN "send on closed channel" ELSE fatal
    /\ signal' = IF ~signalClosed /\ throttlePc = "recvSignal" /\ Len(signal) < SignalCap
                 THEN Append(signal, v) ELSE signal
    /\ accepted' = IF ~signalClosed /\ throttlePc = "recvSignal" /\ Len(signal) < SignalCap
                   THEN accepted + 1 ELSE accepted

SignalUnbounded(v) ==
    /\ fatal' = IF signalClosed THEN "send on closed channel" ELSE fatal
    /\ signal' = IF signalClosed THEN signal ELSE Append(signal, v)
    /\ accepted' = IF signalClosed THEN accepted ELSE accepted + 1

Signal(v) ==
    IF signalClosed
    THEN /\ fatal' = "send on closed channel"
         /\ signal' = signal
         /\ accepted' = accepted
    ELSE /\ fatal' = fatal
         /\ signal' = IF Len(signal) < SignalCap THEN Append(signal, v) ELSE signal
         /\ accepted' = IF Len(signal) < SignalCap THEN accepted + 1 ELSE accepted

\* A panic ends the process: nothing runs after it.
Alive == fatal = "none"

\* Target calls in progress.
Active == begun - returned

\* Triggers accepted into s.signal whose target call has not begun: those
\* still buffered and the one the throttle goroutine holds.
HeldTrigger == IF throttlePc = "send" /\ held.src \in {"Signal", "After"} THEN 1 ELSE 0
Pending == Len(signal) + HeldTrigger

\* The loop enters its select: case <-s.clock.After(s.interval) creates a
\* fresh one-shot timer of the configured interval.
Rearm ==
    /\ afterArgs' = Append(afterArgs, Interval)
    /\ armed' = 0
    /\ waited' = 0

(***************************************************************************)
(* The caller.                                                             *)
(***************************************************************************)
\* When the environment calls Start(): once per scheduler, as the tests do
\* and as the contract of Start demands (a second call would run a second
\* loop on the same channels; no behaviour with two loops is modelled).
MayStart == ~started

\* Start(): go func() { ... }() only creates the loop goroutine and returns;
\* the caller's Stop() and Signal() can run before the goroutine does.
Start ==
    /\ Alive
    /\ MayStart
    /\ started' = TRUE
    /\ loopPc' = "spawned"
    /\ UNCHANGED <<conf, stopCalls, emptyTicks, tickerLog, timer,
                   quit, signal, signalClosed, fatal, readyPc, released, cClosed,
                   throttlePc, held, tClosed, begun, returned, sigCalls, accepted,
                   ticks, elapsed, ghost, burst>>

\* When the environment may call Stop(): the free one at any time, a test
\* driver once, after Start and when its last round is complete (the driver
\* of TestThrottledExplicitFire makes further Signal() calls after its last
\* round, so it may stop with a signal in the buffer).
MayStop ==
    CASE driver = "free" -> TRUE
      [] driver = "automatic" -> started /\ quit = "open" /\ begun = elapsed
      [] driver = "explicit" -> started /\ quit = "open" /\ begun = sigCalls
      [] driver = "throttledExplicit" -> started /\ quit = "open" /\ begun = ticks
      [] driver = "throttledAutomatic" -> started /\ quit = "open" /\ begun = elapsed
      [] driver = "timed" -> quit = "open"

StopIdempotent ==
    /\ Alive
    /\ MayStop
    /\ quit' = "closed"
    /\ stopCalls' = stopCalls + 1
    /\ UNCHANGED <<conf, emptyTicks, tickerLog, timer, fatal,
                   started, signal, signalClosed, loopPc, readyPc, released, cClosed,
                   throttlePc, held, tClosed, begun, returned, sigCalls, accepted, ticks,
                   elapsed, ghost, burst>>

\* Stop(): close(s.quit); closing a closed channel panics.
Stop ==
    /\ Alive
    /\ MayStop
    /\ quit' = "closed"
    /\ fatal' = IF quit = "closed" THEN "close of closed channel" ELSE fatal
    /\ stopCalls' = stopCalls + 1
    /\ UNCHANGED <<conf, emptyTicks, tickerLog, timer,
                   started, signal, signalClosed, loopPc, readyPc, released, cClosed,
                   throttlePc, held, tClosed, begun, returned, sigCalls, accepted, ticks,
                   elapsed, ghost, burst>>

\* When the environment calls Signal().
MaySignal ==
    CASE driver = "free" -> sigCalls < MaxSignals
      [] driver = "automatic" -> FALSE
      [] driver = "explicit" -> quit = "open" /\ sigCalls < MaxRounds /\ begun = sigCalls
      [] driver = "throttledExplicit" -> quit = "open" /\ begun = ticks /\ burst < MaxBurst
      [] driver = "throttledAutomatic" -> FALSE
      [] driver = "timed" -> sigCalls < MaxSignals

\* A Signal() call of the caller.
CallSignal ==
    /\ Alive
    /\ MaySignal
    /\ Signal(FromSignal)
    /\ sigCalls' = sigCalls + 1
    /\ burst' = IF driver = "throttledExplicit" THEN burst + 1 ELSE burst
    /\ UNCHANGED <<conf, stopCalls, emptyTicks, tickerLog, timer,
                   started, quit, signalClosed, loopPc, readyPc, released, cClosed,
                   throttlePc, held, tClosed, begun, returned, ticks, elapsed, ghost>>

(***************************************************************************)
(* The loop goroutine.                                                     *)
(***************************************************************************)
\* The goroutine of Start() runs up to its first select: defer close(s.signal);
\* s.withChan: hammer(quit) (default), or clock.NewTicker(minInterval) and
\* convert(ticker.Chan()); t := throttle(c, s.signal); the select calls
\* clock.After(s.interval).  None of these blocks or touches s.signal or
\* s.quit, and the goroutines created take their first step after it.
LoopEnter ==
    /\ Alive
    /\ loopPc = "spawned"
    /\ loopPc' = "select"
    /\ readyPc' = IF throttled THEN "recv" ELSE "send"
    /\ throttlePc' = "recvReady"
    /\ tickerArgs' = IF throttled THEN Append(tickerArgs, MinInterval) ELSE tickerArgs
    /\ Rearm
    /\ UNCHANGED <<conf, stopCalls, emptyTicks, tickerStops,
                   started, quit, signal, signalClosed, fatal, released, cClosed, held,
                   tClosed, begun, returned, sigCalls, accepted, ticks, elapsed, ghost,
                   burst>>

\* case <-t: s.target()   (the rendezvous with throttle's ch3 <- v)
\* t is closed only after the loop has left the select, so a receive from
\* the closed t cannot happen here.
LoopRecvTAsync ==
    /\ Alive
    /\ loopPc = "select"
    /\ throttlePc = "send"
    /\ loopPc' = "select"
    /\ throttlePc' = "recvReady"
    /\ held' = None
    /\ begun' = begun + 1
    /\ sinceTick' = sinceTick + 1
    /\ invFrom' = IF held.src = "Signal"
                  THEN [invFrom EXCEPT ![held.epoch] = @ + 1] ELSE invFrom
    /\ UNCHANGED <<conf, stopCalls, emptyTicks, tickerLog, timer,
                   started, quit, signal, signalClosed, fatal, readyPc, released,
                   cClosed, tClosed, returned, sigCalls, accepted, ticks, elapsed, burst>>

LoopRecvT ==
    /\ Alive
    /\ loopPc = "select"
    /\ throttlePc = "send"
    /\ loopPc' = "target"
    /\ throttlePc' = "recvReady"
    /\ held' = None
    /\ begun' = begun + 1
    /\ sinceTick' = sinceTick + 1
    /\ invFrom' = IF held.src = "Signal"
                  THEN [invFrom EXCEPT ![held.epoch] = @ + 1] ELSE invFrom
    /\ UNCHANGED <<conf, stopCalls, emptyTicks, tickerLog, timer,
                   started, quit, signal, signalClosed, fatal, readyPc, released,
                   cClosed, tClosed, returned, sigCalls, accepted, ticks, elapsed, burst>>

\* s.target() returns and the loop re-enters the select.
TargetReturnNoRearm ==
    /\ Alive
    /\ loopPc = "target"
    /\ loopPc' = "select"
    /\ returned' = returned + 1
    /\ waited' = 0
    /\ UNCHANGED <<conf, stopCalls, emptyTicks, tickerLog, afterArgs, armed,
                   started, quit, signal, signalClosed, fatal, readyPc, released,
                   cClosed, throttlePc, held, tClosed, begun, sigCalls, accepted, ticks,
                   elapsed, ghost, burst>>

\* s.target() returns and the loop re-enters the select.
TargetReturn ==
    /\ Alive
    /\ loopPc = "target"
    /\ loopPc' = "select"
    /\ returned' = returned + 1
    /\ Rearm
    /\ UNCHANGED <<conf, stopCalls, emptyTicks, tickerLog,
                   started, quit, signal, signalClosed, fatal, readyPc, released,
                   cClosed, throttlePc, held, tClosed, begun, sigCalls, accepted, ticks,
                   elapsed, ghost, burst>>

\* The one-shot timer of the latest clock.After(s.interval) call has run its
\* full duration (the Clock contract: the channel is ready after the duration).
Expired == armed = Interval

\* When the clock delivers an interval-elapsed event.
MayElapse ==
    CASE driver = "free" -> elapsed < MaxElapsed
      [] driver = "automatic" -> quit = "open" /\ elapsed < MaxRounds /\ begun = elapsed
      [] driver = "explicit" -> FALSE
      [] driver = "throttledExplicit" -> FALSE
      [] driver = "throttledAutomatic" -> quit = "open" /\ elapsed < MaxRounds /\ begun = elapsed
      [] driver = "timed" -> elapsed < MaxElapsed /\ Expired

\* case <-s.clock.After(s.interval):
LoopRecvAfter ==
    /\ Alive
    /\ loopPc = "select"
    /\ MayElapse
    /\ loopPc' = "signal"
    /\ elapsed' = elapsed + 1
    /\ UNCHANGED <<conf, stopCalls, emptyTicks, tickerLog, timer,
                   started, quit, signal, signalClosed, fatal, readyPc, released,
                   cClosed, throttlePc, held, tClosed, begun, returned, sigCalls, accepted,
                   ticks, ghost, burst>>

\* ... s.Signal()
LoopSignalDirect ==
    /\ Alive
    /\ loopPc = "signal"
    /\ loopPc' = "target"
    /\ begun' = begun + 1
    /\ sinceTick' = sinceTick + 1
    /\ UNCHANGED <<conf, stopCalls, emptyTicks, tickerLog, timer,
                   started, quit, signal, signalClosed, fatal, readyPc, released,
                   cClosed, throttlePc, held, tClosed, returned, sigCalls, accepted, ticks,
                   elapsed, invFrom, burst>>

LoopSignalSkip ==
    /\ Alive
    /\ loopPc = "signal"
    /\ loopPc' = "select"
    /\ Rearm
    /\ UNCHANGED <<conf, stopCalls, emptyTicks, tickerLog,
                   started, quit, signal, signalClosed, fatal, readyPc, released,
                   cClosed, throttlePc, held, tClosed, begun, returned, sigCalls, accepted,
                   ticks, elapsed, ghost, burst>>

LoopSignal ==
    /\ Alive
    /\ loopPc = "signal"
    /\ Signal(FromAfter)
    /\ loopPc' = "select"
    /\ Rearm
    /\ UNCHANGED <<conf, stopCalls, emptyTicks, tickerLog,
                   started, quit, signalClosed, readyPc, released, cClosed, throttlePc,
                   held, tClosed, begun, returned, sigCalls, ticks, elapsed, ghost, burst>>

\* case <-s.quit: return
LoopQuitNever ==
    /\ Alive
    /\ FALSE
    /\ UNCHANGED vars

\* case <-s.quit: return
LoopQuit ==
    /\ Alive
    /\ loopPc = "select"
    /\ quit = "closed"
    /\ loopPc' = "release"
    /\ UNCHANGED <<conf, stopCalls, emptyTicks, tickerLog, timer,
                   started, quit, signal, signalClosed, fatal, readyPc, released,
                   cClosed, throttlePc, held, tClosed, begun, returned, sigCalls, accepted,
                   ticks, elapsed, ghost, burst>>

\* withChan's deferred call: close(quit) of hammer, or ticker.Stop()
LoopReleaseNoStop ==
    /\ Alive
    /\ loopPc = "release"
    /\ released' = TRUE
    /\ loopPc' = "close"
    /\ UNCHANGED <<conf, stopCalls, emptyTicks, tickerLog, timer,
                   started, quit, signal, signalClosed, fatal, readyPc, cClosed,
                   throttlePc, held, tClosed, begun, returned, sigCalls, accepted, ticks,
                   elapsed, ghost, burst>>

\* withChan's deferred call: close(quit) of hammer, or ticker.Stop()
LoopRelease ==
    /\ Alive
    /\ loopPc = "release"
    /\ released' = TRUE
    /\ loopPc' = "close"
    /\ tickerStops' = IF throttled THEN tickerStops + 1 ELSE tickerStops
    /\ UNCHANGED <<conf, stopCalls, emptyTicks, tickerArgs, timer,
                   started, quit, signal, signalClosed, fatal, readyPc, cClosed,
                   throttlePc, held, tClosed, begun, returned, sigCalls, accepted, ticks,
                   elapsed, ghost, burst>>

\* defer close(s.signal)
LoopClose ==
    /\ Alive
    /\ loopPc = "close"
    /\ signalClosed' = TRUE
    /\ loopPc' = "done"
    /\ UNCHANGED <<conf, stopCalls, emptyTicks, tickerLog, timer,
                   started, quit, signal, fatal, readyPc, released, cClosed,
                   throttlePc, held, tClosed, begun, returned, sigCalls, accepted, ticks,
                   elapsed, ghost, burst>>

(***************************************************************************)
(* The ready source.                                                       *)
(***************************************************************************)
\* hammer: case ch <- struct{}{}   (received by throttle's for range ch1)
HammerSendNever ==
    /\ Alive
    /\ FALSE
    /\ UNCHANGED vars

\* hammer: case ch <- struct{}{}   (received by throttle's for range ch1)
HammerSend ==
    /\ Alive
    /\ ~throttled
    /\ readyPc = "send"
    /\ throttlePc = "recvReady"
    /\ throttlePc' = "recvSignal"
    /\ UNCHANGED <<conf, stopCalls, emptyTicks, tickerLog, timer,
                   started, quit, signal, signalClosed, fatal, loopPc, readyPc,
                   released, cClosed, held, tClosed, begun, returned, sigCalls, accepted,
                   ticks, elapsed, ghost, burst>>

\* hammer: case <-quit: return, and the deferred close(ch)
HammerQuit ==
    /\ Alive
    /\ ~throttled
    /\ readyPc = "send"
    /\ released
    /\ readyPc' = "done"
    /\ cClosed' = TRUE
    /\ UNCHANGED <<conf, stopCalls, emptyTicks, tickerLog, timer,
                   started, quit, signal, signalClosed, fatal, loopPc, released,
                   throttlePc, held, tClosed, begun, returned, sigCalls, accepted, ticks,
                   elapsed, ghost, burst>>

\* When the ticker delivers a tick.  The ticker goroutine of
\* TestThrottledSchedule sends whenever convert receives, also after Stop().
MayTick ==
    CASE driver = "free" -> ticks < MaxTicks
      [] driver = "automatic" -> FALSE
      [] driver = "explicit" -> FALSE
      [] driver = "throttledExplicit" ->
            quit = "open" /\ ticks < MaxRounds /\ burst >= 1 /\ begun = ticks
      [] driver = "throttledAutomatic" -> TRUE
      [] driver = "timed" -> FALSE

\* convert: for range ch1   (a tick of the ticker; its channel is unbuffered
\* in the mock ticker, so the tick is delivered when convert receives it;
\* ticker.Stop() of the mock ticker only sets a flag, so ticks can follow it)
Tick ==
    /\ Alive
    /\ throttled
    /\ readyPc = "recv"
    /\ MayTick
    /\ readyPc' = "send"
    /\ ticks' = ticks + 1
    /\ sinceTick' = 0
    /\ burst' = 0
    /\ emptyTicks' = IF Pending = 0 THEN emptyTicks \cup {ticks + 1} ELSE emptyTicks
    /\ UNCHANGED <<conf, stopCalls, tickerLog, timer,
                   started, quit, signal, signalClosed, fatal, loopPc, released,
                   cClosed, throttlePc, held, tClosed, begun, returned, sigCalls, accepted,
                   elapsed, invFrom>>

\* convert: ch2 <- struct{}{}   (received by throttle's for range ch1)
ConvertSendKeep ==
    /\ Alive
    /\ throttled
    /\ readyPc = "send"
    /\ throttlePc = "recvReady"
    /\ throttlePc' = "recvSignal"
    /\ UNCHANGED <<conf, stopCalls, emptyTicks, tickerLog, timer,
                   started, quit, signal, signalClosed, fatal, loopPc, readyPc,
                   released, cClosed, held, tClosed, begun, returned, sigCalls, accepted,
                   ticks, elapsed, ghost, burst>>

ConvertSend ==
    /\ Alive
    /\ throttled
    /\ readyPc = "send"
    /\ throttlePc = "recvReady"
    /\ readyPc' = "recv"
    /\ throttlePc' = "recvSignal"
    /\ UNCHANGED <<conf, stopCalls, emptyTicks, tickerLog, timer,
                   started, quit, signal, signalClosed, fatal, loopPc, released,
                   cClosed, held, tClosed, begun, returned, sigCalls, accepted, ticks,
                   elapsed, ghost, burst>>

(***************************************************************************)
(* The throttle goroutine.                                                 *)
(***************************************************************************)
\* <-ch2: a buffered value, or the zero value once s.signal is closed and empty
ThrottleRecvSignal ==
    /\ Alive
    /\ throttlePc = "recvSignal"
    /\ \/ /\ Len(signal) > 0
          /\ held' = Head(signal)
          /\ signal' = Tail(signal)
       \/ /\ Len(signal) = 0
          /\ signalClosed
          /\ held' = Zero
          /\ signal' = signal
    /\ throttlePc' = "send"
    /\ UNCHANGED <<conf, stopCalls, emptyTicks, tickerLog, timer,
                   started, quit, signalClosed, fatal, loopPc, readyPc, released,
                   cClosed, tClosed, begun, returned, sigCalls, accepted, ticks, elapsed,
                   ghost, burst>>

\* for range ch1 ends when ch1 is closed; the deferred close(ch3)
ThrottleEnd ==
    /\ Alive
    /\ throttlePc = "recvReady"
    /\ cClosed
    /\ throttlePc' = "done"
    /\ tClosed' = TRUE
    /\ UNCHANGED <<conf, stopCalls, emptyTicks, tickerLog, timer,
                   started, quit, signal, signalClosed, fatal, loopPc, readyPc,
                   released, cClosed, held, begun, returned, sigCalls, accepted, ticks,
                   elapsed, ghost, burst>>

\* One unit of time passes while the loop waits in its select (time that
\* passes elsewhere changes nothing: no timer of the loop is armed then).
Tock ==
    /\ Alive
    /\ driver = "timed"
    /\ loopPc = "select"
    /\ armed < Interval \/ waited < Interval
    /\ armed' = IF armed < Interval THEN armed + 1 ELSE armed
    /\ waited' = IF waited < Interval THEN waited + 1 ELSE waited
    /\ UNCHANGED <<conf, stopCalls, emptyTicks, tickerLog, afterArgs,
                   started, quit, signal, signalClosed, fatal, loopPc, readyPc, released,
                   cClosed, throttlePc, held, tClosed, begun, returned, sigCalls, accepted,
                   ticks, elapsed, ghost, burst>>

Next ==
    \/ Start
    \/ Stop
    \/ CallSignal
    \/ LoopEnter
    \/ LoopRecvT
    \/ TargetReturn
    \/ LoopRecvAfter
    \/ LoopSignal
    \/ LoopQuit
    \/ LoopRelease
    \/ LoopClose
    \/ HammerSend
    \/ HammerQuit
    \/ Tick
    \/ ConvertSend
    \/ ThrottleRecvSignal
    \/ ThrottleEnd
    \/ Tock

Spec == Init /\ [][Next]_vars

\* Scheduling of the goroutines.  Go runs every runnable goroutine sooner or
\* later, and a select chooses pseudo-randomly among its ready cases, so a
\* step that stays possible is taken in the end.  Only this weak fairness is
\* assumed, of the goroutines' steps alone: the caller, the clock and the
\* ticker owe nothing; target returns.
Fairness ==
    /\ WF_vars(LoopEnter)
    /\ WF_vars(LoopQuit)
    /\ WF_vars(LoopRecvT)
    /\ WF_vars(TargetReturn)
    /\ WF_vars(LoopSignal)
    /\ WF_vars(LoopRelease)
    /\ WF_vars(LoopClose)
    /\ WF_vars(HammerSend)
    /\ WF_vars(HammerQuit)
    /\ WF_vars(ConvertSend)
    /\ WF_vars(ThrottleRecvSignal)
    /\ WF_vars(ThrottleEnd)

FairSpec == Spec /\ Fairness

(***************************************************************************)
(* Claims.                                                                 *)
(***************************************************************************)

\* C1: once Stop() has returned (s.quit is closed) no new target call begins.
\* The select of the loop chooses among its ready cases, so the code breaks it.
C1_NoInvocationAfterStop == [][quit = "closed" => begun' = begun]_vars

\* C2: target calls never overlap: at most one call is in progress, the loop
\* is inside target exactly while one is, and so call N begins only after
\* call N-1 has returned.
C2_NoOverlap ==
    /\ Active \in {0, 1}
    /\ (Active = 1) <=> (loopPc = "target")

\* A second target call is running while Stop() was called and a signal is buffered.
C2_Witness == begun = 2 /\ returned = 1 /\ Len(signal) = 1 /\ quit = "closed"

\* C3 as stated: no Signal() call ever ends in a fatal error.
C3_SignalNeverFails == fatal # "send on closed channel"

\* C3 amended: a Signal() call made before the loop closed s.signal never
\* fails; one made after it is a fatal error (send on closed channel) that
\* leaves the buffer alone and begins no target call.  The fatal error is
\* only ever seen after the loop has exited.
C3_SignalFailsOnlyAfterClose ==
    /\ [](fatal = "send on closed channel" => signalClosed /\ loopPc = "done")
    /\ [][sigCalls' = sigCalls + 1 =>
            IF signalClosed
            THEN fatal' = "send on closed channel" /\ signal' = signal /\ begun' = begun
            ELSE fatal' = "none"]_vars

\* Signal() was called after the loop had exited.
C3_Witness == fatal = "send on closed channel" /\ sigCalls >= 1 /\ loopPc = "done"

\* C4: in throttled mode at most one target call begins between two
\* consecutive ticks of the gate ticker.  A tick that finds no signal is kept
\* by the throttle goroutine (and one more by convert), so the code breaks it.
C4_AtMostOncePerWindow == throttled => sinceTick <= 1

\* C5: in throttled mode the Signal() calls made between two consecutive
\* ticks (at tick count e, with the next tick delivered) cause at most one
\* target call in total.
C5_BurstAtMostOne ==
    throttled => \A e \in 1..MaxTicks : e < ticks => invFrom[e] <= 1

\* C6 as stated: at most one trigger is ever accepted and not yet turned
\* into a started target call.
C6_AtMostOnePending == Pending <= 1

\* C6 amended: a Signal() call that finds the earlier signal still in the
\* buffer is dropped and changes nothing; every accepted trigger is either
\* pending or has begun exactly one target call; at most two triggers are
\* pending, one in the buffer and one held by the throttle goroutine.
C6_CoalescedWhileBuffered ==
    /\ [](Pending <= 2 /\ accepted = begun + Pending)
    /\ [][sigCalls' = sigCalls + 1 /\ Len(signal) = 1 =>
            signal' = signal /\ accepted' = accepted /\ Pending' = Pending]_vars

\* Two Signal() calls were both accepted before the first target call began.
C6_Witness == sigCalls = 2 /\ elapsed = 0 /\ begun = 0 /\ Pending = 2 /\ quit = "open"

\* C7: while s.signal is open a Signal() call is always possible (it never
\* blocks) and is one step: on a full buffer it changes nothing, otherwise it
\* fills the slot; the buffer never holds more than one signal.
C7_SignalNonBlocking ==
    /\ [](Len(signal) <= 1)
    /\ [](Alive /\ MaySignal /\ ~signalClosed => ENABLED CallSignal)
    /\ [][sigCalls' = sigCalls + 1 /\ ~signalClosed =>
            /\ fatal' = "none"
            /\ loopPc' = loopPc /\ throttlePc' = throttlePc /\ begun' = begun
            /\ IF Len(signal) = 1
               THEN signal' = signal /\ accepted' = accepted
               ELSE Len(signal') = 1 /\ accepted' = accepted + 1]_vars

\* The third Signal() call was dropped while the loop was inside target
\* and the second was still buffered.
C7_Witness ==
    /\ sigCalls = 3 /\ accepted = 2 /\ elapsed = 0
    /\ Len(signal) = 1 /\ loopPc = "target" /\ quit = "open"

\* The interval-elapsed event the loop has received and not yet posted.
Posting == IF loopPc = "signal" THEN 1 ELSE 0

\* C8: unthrottled, no Signal() calls, each interval-elapsed event delivered
\* after the target call of the previous one began: every event the loop
\* consumed is being posted, is pending or has begun exactly one target call,
\* at most one is outstanding, and at Stop() the target ran once per event.
C8_IntervalFiring ==
    driver = "automatic" =>
        /\ sigCalls = 0
        /\ elapsed = begun + Pending + Posting
        /\ Pending + Posting <= 1
        /\ quit = "closed" => begun = elapsed

\* All the rounds of the driver ran and Stop() was called: N events, N calls.
C8_Witness ==
    driver = "automatic" /\ quit = "closed" /\ elapsed = MaxRounds /\ begun = MaxRounds

\* C9: unthrottled, no interval-elapsed events, each Signal() call made
\* after the target call of the previous one began: every call is accepted,
\* and is pending or has begun exactly one target call; at Stop() the target
\* ran once per call.
C9_ExplicitFiring ==
    driver = "explicit" =>
        /\ elapsed = 0
        /\ accepted = sigCalls
        /\ sigCalls = begun + Pending
        /\ Pending <= 1
        /\ quit = "closed" => begun = sigCalls

\* All the rounds of the driver ran and Stop() was called: N calls, N target calls.
C9_Witness ==
    driver = "explicit" /\ quit = "closed" /\ sigCalls = MaxRounds /\ begun = MaxRounds

\* The gate token of the last tick, where it is on its way to the loop.
TokenInFlight == readyPc = "send" \/ throttlePc \in {"recvSignal", "send"}

\* C10: throttled, no interval-elapsed events, rounds of one or more Signal()
\* calls, then one tick, then a wait for the target call: each round begins
\* exactly one target call whatever the number of Signal() calls, so after K
\* rounds the target ran K times, also when further Signal() calls follow
\* the last round (the first of them stays in the buffer at Stop()).
C10_ThrottledExplicitFiring ==
    driver = "throttledExplicit" =>
        /\ elapsed = 0
        /\ ticks \in {begun, begun + 1}
        /\ accepted = begun + Pending
        /\ ticks = begun + 1 => Pending = 1 /\ TokenInFlight
        /\ ticks = begun => Pending = (IF burst >= 1 THEN 1 ELSE 0) /\ ~TokenInFlight
        /\ sigCalls >= accepted
        /\ quit = "closed" => begun = ticks

\* All the rounds ran with the largest bursts, the largest burst followed the
\* last round and the loop has exited after Stop(): (K + 1) * MaxBurst
\* Signal() calls, K ticks, K target calls, one signal left in the buffer.
C10_Witness ==
    /\ driver = "throttledExplicit" /\ quit = "closed" /\ loopPc = "done"
    /\ ticks = MaxRounds /\ begun = MaxRounds /\ sigCalls = (MaxRounds + 1) * MaxBurst
    /\ Len(signal) = 1

\* A step of one of the scheduler's goroutines (not of the caller, the clock
\* or the ticker).
GoroutineStep ==
    \/ LoopEnter \/ LoopRecvT \/ TargetReturn \/ LoopSignal \/ LoopQuit \/ LoopRelease \/ LoopClose
    \/ HammerSend \/ HammerQuit \/ ConvertSend \/ ThrottleRecvSignal \/ ThrottleEnd

\* Every goroutine started by Start() has returned.
Terminated == loopPc = "done" /\ readyPc = "done" /\ throttlePc = "done"

\* C11: after Stop() every goroutine started by Start() terminates: once no
\* goroutine of the stopped scheduler can take a step, all of them have
\* returned.  The throttle goroutine stays blocked in ch3 <- (and convert in
\* for range ch1), so the code breaks it.
C11_NoLeak ==
    (Alive /\ started /\ quit = "closed" /\ ~ENABLED GoroutineStep) => Terminated

\* C12: the first Stop() closes s.quit without blocking and without a fatal
\* error; a second Stop() is a fatal error (close of closed channel), whether
\* or not the loop has exited.
C12_StopAtMostOnce ==
    /\ [](fatal = "close of closed channel" => quit = "closed" /\ stopCalls = 2)
    /\ [](Alive /\ MayStop => ENABLED Stop)
    /\ [][stopCalls' = stopCalls + 1 =>
            IF quit = "open"
            THEN quit' = "closed" /\ fatal' = "none" /\ loopPc' = loopPc
            ELSE fatal' = "close of closed channel"]_vars

\* The second Stop() was called after the loop had exited.
C12_Witness == fatal = "close of closed channel" /\ stopCalls = 2 /\ loopPc = "done"

\* C13: in throttled mode a tick delivered while no trigger is pending is not
\* remembered: a trigger posted after such a tick (at its tick count) begins
\* its target call only after a later tick.  The throttle goroutine keeps the
\* tick while it waits in <-ch2, so the code breaks it.
C13_EmptyTickNotRemembered ==
    [][(throttled /\ begun' = begun + 1 /\ held.epoch \in emptyTicks)
           => ticks > held.epoch]_vars

\* C14: an interval-elapsed event never calls target itself: the loop only
\* makes the non-blocking post of Signal() (dropped on a full buffer) and
\* re-enters its select.  In throttled mode no target call begins before the
\* first tick, and under the driver with ticks freely available and each
\* event delivered after the target call of the previous one began, every
\* event is being posted, is pending or has begun exactly one target call;
\* at Stop() the target ran once per event.
C14_SingleTriggerPipeline ==
    /\ [][elapsed' = elapsed + 1 => loopPc' = "signal" /\ begun' = begun /\ signal' = signal]_vars
    /\ [][loopPc = "signal" /\ loopPc' # "signal" =>
            /\ loopPc' = "select" /\ begun' = begun /\ fatal' = "none"
            /\ signal' = IF Len(signal) = 1 THEN signal ELSE <<FromAfter>>]_vars
    /\ [](throttled /\ ticks = 0 => begun = 0)
    /\ [](driver = "throttledAutomatic" =>
            /\ sigCalls = 0
            /\ elapsed = begun + Pending + Posting
            /\ Pending + Posting <= 1
            /\ quit = "closed" => begun = elapsed)

\* All the rounds of the throttled interval driver ran and Stop() was called.
C14_Witness ==
    /\ driver = "throttledAutomatic" /\ quit = "closed"
    /\ elapsed = MaxRounds /\ begun = MaxRounds /\ ticks > MaxRounds

\* C15: once Stop() was called on a started scheduler the loop reaches its
\* end (or the process died of a fatal error), whatever Signal() calls and
\* interval-elapsed events arrive; the end is absorbing; Stop() is possible
\* while target runs and leaves the running call alone.
C15_LoopTerminates ==
    /\ (stopCalls >= 1 /\ started) ~> (loopPc = "done" \/ ~Alive)
    /\ [][loopPc = "done" => loopPc' = "done"]_vars
    /\ [](Alive /\ MayStop /\ loopPc = "target" => ENABLED Stop)
    /\ [][stopCalls' = stopCalls + 1 /\ loopPc = "target" =>
            loopPc' = "target" /\ begun' = begun /\ returned' = returned]_vars

\* The loop ended after one Stop() although a trigger was still pending.
C15_Witness ==
    Alive /\ stopCalls = 1 /\ loopPc = "done" /\ begun >= 1 /\ returned = begun /\ Pending >= 1

\* C16: in unthrottled mode, while Stop() has not been called, the triggers
\* accepted into the buffer all begin their target call without any further
\* event of the caller or the clock (the pipeline drains), and with a trigger
\* pending some goroutine can always take a step.
C16_ImmediateLiveness ==
    /\ (~throttled /\ started /\ Pending >= 1)
           ~> ((Pending = 0 /\ accepted = begun) \/ stopCalls >= 1 \/ ~Alive)
    /\ [](~throttled /\ Alive /\ started /\ stopCalls = 0 /\ Pending >= 1
               => ENABLED GoroutineStep)

\* Unthrottled and never stopped: all the Signal() calls and interval posts
\* of the free environment were accepted and began a target call.
C16_Witness ==
    /\ driver = "free" /\ ~throttled /\ stopCalls = 0 /\ Pending = 0
    /\ sigCalls = MaxSignals /\ elapsed = MaxElapsed /\ begun = MaxSignals + MaxElapsed

\* C17: throttled: one ticker is created, with the throttle duration, when
\* the loop goroutine of the started scheduler begins to run (none before),
\* and it is stopped once, when the loop has left its select after Stop(),
\* not before; unthrottled: no ticker at all.
C17_TickerOwnership ==
    /\ tickerArgs = IF throttled /\ loopPc \notin {"idle", "spawned"}
                    THEN <<MinInterval>> ELSE <<>>
    /\ loopPc # "idle" => started
    /\ tickerStops = IF throttled /\ loopPc \in {"close", "done"} THEN 1 ELSE 0
    /\ tickerStops >= 1 => stopCalls >= 1 /\ released
    /\ loopPc \in {"select", "target", "signal"} => tickerStops = 0

\* A throttled scheduler ran target, was stopped and its loop has exited.
C17_Witness ==
    /\ throttled /\ loopPc = "done" /\ begun >= 1
    /\ tickerArgs = <<MinInterval>> /\ tickerStops = 1

\* Gate ticks on their way to the loop: one held by convert (blocked in
\* ch2 <-), one held by the throttle goroutine (after for range ch1).
TokensHeld ==
    (IF readyPc = "send" THEN 1 ELSE 0) + (IF throttlePc \in {"recvSignal", "send"} THEN 1 ELSE 0)

\* C18: the target calls begun never exceed the posts accepted into the
\* buffer, nor, in throttled mode, the ticks delivered; every tick is held
\* in the pipeline or was used by exactly one target call, and a target call
\* begins by taking one trigger and one ready token out of the pipeline.
C18_TokenConservation ==
    /\ [](begun <= accepted /\ accepted <= sigCalls + elapsed)
    /\ [](throttled => begun <= ticks /\ ticks = begun + TokensHeld)
    /\ [][begun' = begun + 1 =>
            /\ Pending' = Pending - 1 /\ accepted' = accepted
            /\ throttled => (TokensHeld' = TokensHeld - 1 /\ ticks' = ticks)]_vars

\* Throttled: three target calls for three accepted posts and three ticks.
C18_Witness == throttled /\ begun = 3 /\ accepted = 3 /\ ticks = 3 /\ Alive

\* C19: at most two accepted triggers have not begun their target call, and
\* when there are two, one is in the buffer and the other is held by the
\* throttle goroutine: with no further post at most two more calls begin.
C19_BoundedBacklog ==
    /\ accepted - begun \in 0..2
    /\ accepted - begun = 2 => Len(signal) = 1 /\ throttlePc = "send"

\* A burst of three Signal() calls before any target call: two accepted
\* (one buffered, one held by throttle), one dropped.
C19_Witness == sigCalls = 3 /\ elapsed = 0 /\ accepted = 2 /\ begun = 0

\* C20: every entry of the loop into its select calls clock.After with the
\* configured interval, so the timer the loop waits on has run exactly as
\* long as the loop has waited; with a clock that fires After once the
\* duration has passed, an interval-elapsed event is consumed only when the
\* loop has waited a full interval since it last entered the select (so none
\* is consumed while every wait is cut short by a target call).
C20_IntervalRearmed ==
    /\ [](\A i \in 1..Len(afterArgs) : afterArgs[i] = Interval)
    /\ [](Len(afterArgs) = (IF loopPc \in {"idle", "spawned"} THEN 0 ELSE 1)
                               + returned + (elapsed - Posting))
    /\ [](loopPc = "select" => armed = waited)
    /\ [][(loopPc # "select" /\ loopPc' = "select") => armed' = 0 /\ waited' = 0]_vars
    /\ [][(driver = "timed" /\ elapsed' = elapsed + 1) => waited = Interval]_vars

\* With the timed clock: an interval-elapsed event was consumed after a
\* target call for a Signal() had restarted the countdown.
C20_Witness ==
    /\ driver = "timed" /\ loopPc = "signal" /\ waited = Interval
    /\ sigCalls >= 1 /\ returned >= 1 /\ elapsed = 1
====
